---------------------------- MODULE Spec2Model ----------------------------
(***************************************************************************)
(* Model of dengue_prediction/features/feature.py: the type-robust call   *)
(* wrapper (make_robust_to_tabular_types), Feature construction, and the  *)
(* FeatureValidator check battery.                                         *)
(***************************************************************************)
EXTENDS Integers, Sequences, FiniteSets, TLC

VARIABLES
    rPc,        \* wrapped(): "idle" | "loop" | "done"
    rY,         \* wrapped(): whether the caller passed y (y is not None)
    rIdx,       \* wrapped(): number of conversion approaches consumed so far
    rTrace,     \* wrapped(): one record per approach attempted, in order
    rOutcome,   \* wrapped(): how the call ended
    fHeap,      \* the transformer objects alive, by identity (index)
    fFeatures,  \* the Feature objects constructed so far
    fOps,       \* number of Feature(...) calls made
    fCalls,     \* number of direct calls of the two make_robust_* helpers
    fLast,      \* the last operation on Features: its arguments and outcome
    vPc,        \* validate(): "idle" | "checks" | "done"
    vFeature,   \* validate(): the feature being validated
    vIdx,       \* validate(): position in the checks get_all_checks yields
    vLog,       \* validate(): one record per check invoked, in order
    vFailed,    \* validate(): the local `failed`
    vFailures,  \* validate(): the local `failures`
    vResult     \* validate(): how the call ended

rvars == <<rPc, rY, rIdx, rTrace, rOutcome>>

fvars == <<fHeap, fFeatures, fOps, fCalls, fLast>>

vvars == <<vPc, vFeature, vIdx, vLog, vFailed, vFailures, vResult>>

vars == <<rPc, rY, rIdx, rTrace, rOutcome, fHeap, fFeatures, fOps, fCalls,
          fLast,
          vPc, vFeature, vIdx, vLog, vFailed, vFailures, vResult>>

(***************************************************************************)
(* Python exception classes used by the model and their base classes.     *)
(***************************************************************************)
ExcClasses ==
    {"ValueError", "TypeError", "UnicodeError", "KeyError", "AttributeError",
     "AssertionError", "RuntimeError", "KeyboardInterrupt"}

ExcBase(e) ==
    CASE e = "UnicodeError"      -> "ValueError"
      [] e = "KeyboardInterrupt" -> "BaseException"
      [] e = "Exception"         -> "BaseException"
      [] e = "BaseException"     -> "object"
      [] OTHER                   -> "Exception"

\* the method resolution chain of an exception class, itself included
ExcMro(e) ==
    LET b1 == ExcBase(e)
        b2 == IF b1 = "object" THEN "object" ELSE ExcBase(b1)
        b3 == IF b2 = "object" THEN "object" ELSE ExcBase(b2)
    IN  {e, b1, b2, b3} \ {"object"}

\* `except classes:` catches e iff e is an instance of one of the classes
Catches(classes, e) == (ExcMro(e) \cap classes) # {}

(***************************************************************************)
(* make_conversion_approaches                                              *)
(***************************************************************************)
\* variant: pd.DataFrame tried before pd.Series
funcsSwapped == <<"identity", "DataFrame", "Series", "asarray", "asarray2d">>

funcs == <<"identity", "Series", "DataFrame", "asarray", "asarray2d">>

\* variant: retry on every Exception
catchEverything == {"Exception"}

catch == {"ValueError", "TypeError"}

\* variant: the last approach yielded with the same catch as the others
approachesAllCatch ==
    [i \in 1..Len(funcs) |-> [convert |-> funcs[i], catch |-> catch]]

\* the (convert, catch) pairs in the order the generator yields them
make_conversion_approaches ==
    [i \in 1..Len(funcs) |->
        [convert |-> funcs[i],
         catch   |-> IF i < Len(funcs) THEN catch ELSE {}]]

(***************************************************************************)
(* The body of the try statement for one approach:                         *)
(*     func(convert(X), y=convert(y), **kwargs)   (y given)                *)
(*     func(convert(X), **kwargs)                 (y is None)              *)
(* convert(X) is evaluated first, then convert(y), then func is called.    *)
(* funcy.identity cannot raise; any other conversion and the wrapped       *)
(* function may raise any exception.                                       *)
(***************************************************************************)
ConvertCanRaise(convert) == convert # "identity"

TryBodyEvents(convert, yGiven) ==
    {[convert |-> convert, stage |-> "func", called |-> TRUE, exc |-> "none"]}
    \cup {[convert |-> convert, stage |-> "func", called |-> TRUE, exc |-> e]
            : e \in ExcClasses}
    \cup {[convert |-> convert, stage |-> s, called |-> FALSE, exc |-> e]
            : s \in (IF ConvertCanRaise(convert)
                     THEN (IF yGiven THEN {"convertX", "convertY"}
                                     ELSE {"convertX"})
                     ELSE {}),
              e \in ExcClasses}

NoOutcome == [kind |-> "none", convert |-> "none", exc |-> "none"]

(***************************************************************************)
(* wrapped(X, y=None, **kwargs)                                            *)
(***************************************************************************)
Call ==
    /\ rPc = "idle"
    /\ \E yGiven \in BOOLEAN : rY' = yGiven
    /\ rPc' = "loop"
    /\ rIdx' = 0
    /\ rTrace' = <<>>
    /\ rOutcome' = NoOutcome
    /\ UNCHANGED <<fvars, vvars>>

\* one iteration of `for convert, catch in make_conversion_approaches()`
Attempt ==
    /\ rPc = "loop"
    /\ rIdx < Len(make_conversion_approaches)
    /\ LET a == make_conversion_approaches[rIdx + 1] IN
       \E ev \in TryBodyEvents(a.convert, rY) :
          /\ rTrace' = Append(rTrace, ev)
          /\ rIdx' = rIdx + 1
          /\ IF ev.exc = "none"
             THEN \* return func(...)
                  /\ rOutcome' = [kind |-> "return", convert |-> a.convert,
                                  exc |-> "none"]
                  /\ rPc' = "done"
             ELSE IF Catches(a.catch, ev.exc)
             THEN \* except catch as e: log and go on with the loop
                  IF rIdx + 1 < Len(make_conversion_approaches)
                  THEN /\ rOutcome' = rOutcome
                       /\ rPc' = "loop"
                  ELSE \* the loop is exhausted: wrapped falls off its end
                       /\ rOutcome' = [kind |-> "fallthrough",
                                       convert |-> "none", exc |-> "none"]
                       /\ rPc' = "done"
             ELSE \* the exception leaves wrapped
                  /\ rOutcome' = [kind |-> "raise", convert |-> a.convert,
                                  exc |-> ev.exc]
                  /\ rPc' = "done"
    /\ UNCHANGED <<rY, fvars, vvars>>

RobustIdle ==
    /\ rPc = "idle"
    /\ rY = FALSE
    /\ rIdx = 0
    /\ rTrace = <<>>
    /\ rOutcome = NoOutcome

(***************************************************************************)
(* Transformer objects.  An attribute value is either Absent or a callable *)
(* [name, owner, layers]: the method `name` of object `owner` under        *)
(* `layers` applications of make_robust_to_tabular_types.                  *)
(***************************************************************************)
Absent == [name |-> "absent", owner |-> 0, layers |-> 0]

Method(name, owner) == [name |-> name, owner |-> owner, layers |-> 0]

\* make_robust_to_tabular_types(func): a new callable around func
make_robust_to_tabular_types(func) == [func EXCEPT !.layers = @ + 1]

\* a user-defined estimator object; `has` is the set of methods it defines
Estimator(id, cls, has, param) ==
    [cls           |-> cls,
     steps         |-> <<>>,
     fit           |-> IF "fit" \in has THEN Method("fit", id) ELSE Absent,
     transform     |-> IF "transform" \in has
                       THEN Method("transform", id) ELSE Absent,
     fit_transform |-> IF "fit_transform" \in has
                       THEN Method("fit_transform", id) ELSE Absent,
     param         |-> param]

\* the estimator objects a caller has at hand
InitialHeap ==
    << Estimator(1, "Imputer", {"fit", "transform", "fit_transform"}, 7),
       Estimator(2, "Imputer", {"fit", "transform"}, 8),
       Estimator(3, "Broken", {"fit"}, 9) >>

\* calls made in one run: Feature(...) and the two helpers together
MaxCalls == 2

SeqsUpTo(S, n) == UNION {[1..k -> S] : k \in 0..n}

\* the step lists a caller may form from the objects alive: none, one or two
\* steps, an earlier pipeline included
StepLists(heap) == SeqsUpTo(1..Len(heap), 2)

\* what a caller may pass as `transformer`: one of the objects alive (an
\* estimator or a pipeline built earlier), or a container of steps
TransformerArgs(heap) ==
    {[kind |-> "object", id |-> i, steps |-> <<>>] : i \in 1..Len(heap)}
    \cup {[kind |-> k, id |-> 0, steps |-> st] :
             k \in {"list", "iterator"}, st \in StepLists(heap)}

\* A Python value as far as `input` handling looks at it: its type and the
\* types of the items iterating over it yields (a str yields its characters,
\* which are str; bytes yield int).
Value(type, items) == [type |-> type, items |-> items]

ColName == Value("str", <<"str", "str", "str">>)

ColList == Value("list", <<"str", "str">>)

Inputs == {ColName, ColList}

\* funcy.is_seqcont: list, tuple, iterator or range
is_seqcont(arg) == arg.kind \in {"list", "tuple", "iterator", "range"}

\* sklearn's _name_estimators: the lowercased class name, numbered when
\* several steps share it
_name_estimators(heap, steps) ==
    [i \in 1..Len(steps) |->
        LET cls  == heap[steps[i]].cls
            same == {j \in 1..Len(steps) : heap[steps[j]].cls = cls}
        IN  [name |-> <<cls, IF Cardinality(same) = 1 THEN 0
                             ELSE Cardinality({j \in same : j <= i})>>,
             est  |-> steps[i]]]

\* TransformerPipeline.__init__ rejects an empty step list (ValueError) and
\* a step without fit/fit_transform or without transform (TypeError)
PipelineError(heap, steps) ==
    IF Len(steps) = 0 THEN "ValueError"
    ELSE IF \E i \in 1..Len(steps) :
               \/ heap[steps[i]].transform = Absent
               \/ (heap[steps[i]].fit = Absent
                   /\ heap[steps[i]].fit_transform = Absent)
         THEN "TypeError"
    ELSE IF heap[steps[Len(steps)]].fit = Absent THEN "TypeError"
    ELSE "none"

\* make_robust_transformer_pipeline(*steps): the new pipeline object, at the
\* next free identity
make_robust_transformer_pipeline(heap, steps) ==
    LET id == Len(heap) + 1 IN
    [cls           |-> "RobustTransformerPipeline",
     steps         |-> _name_estimators(heap, steps),
     fit           |-> Method("fit", id),
     transform     |-> Method("transform", id),
     fit_transform |-> Method("fit_transform", id),
     param         |-> 0]

\* variant: transform replaced by a wrapper of fit
setTransformWrong(obj) ==
    [obj EXCEPT !.transform = make_robust_to_tabular_types(obj.fit)]

\* transformer.fit = make_robust_to_tabular_types(transformer.fit)
setFit(obj) == [obj EXCEPT !.fit = make_robust_to_tabular_types(@)]

\* transformer.transform = make_robust_to_tabular_types(transformer.transform)
setTransform(obj) == [obj EXCEPT !.transform = make_robust_to_tabular_types(@)]

\* make_robust_transformer(transformer) on the object at `id`: the heap
\* afterwards and the exception raised ("none" when it returns).  Reading a
\* missing attribute raises AttributeError; the assignment to fit made
\* before a failing read of transform stays in place.
make_robust_transformer(heap, id) ==
    IF heap[id].fit = Absent
    THEN [heap |-> heap, exc |-> "AttributeError"]
    ELSE LET h1 == [heap EXCEPT ![id] = setFit(@)] IN
         IF h1[id].transform = Absent
         THEN [heap |-> h1, exc |-> "AttributeError"]
         ELSE [heap |-> [h1 EXCEPT ![id] = setTransform(@)], exc |-> "none"]

NoOp == [op |-> "none", input |-> Value("NoneType", <<>>), arg |-> Absent, exc |-> "none",
         result |-> <<>>]

\* Feature.__init__(input, transformer)
FeatureNew ==
    /\ fOps + fCalls < MaxCalls
    /\ fOps' = fOps + 1
    /\ \E input \in Inputs, arg \in TransformerArgs(fHeap) :
          LET perr == IF is_seqcont(arg) THEN PipelineError(fHeap, arg.steps)
                      ELSE "none"
              h0   == IF is_seqcont(arg) /\ perr = "none"
                      THEN Append(fHeap,
                              make_robust_transformer_pipeline(fHeap, arg.steps))
                      ELSE fHeap
              id   == IF is_seqcont(arg) THEN Len(h0) ELSE arg.id
              r    == make_robust_transformer(h0, id)
          IN  IF perr # "none"
              THEN /\ fHeap' = fHeap
                   /\ fFeatures' = fFeatures
                   /\ fLast' = [op |-> "new", input |-> input, arg |-> arg,
                                exc |-> perr, result |-> <<>>]
              ELSE /\ fHeap' = r.heap
                   /\ fFeatures' =
                        IF r.exc = "none"
                        THEN Append(fFeatures,
                                [input |-> input, transformer |-> id])
                        ELSE fFeatures
                   /\ fLast' = [op |-> "new", input |-> input, arg |-> arg,
                                exc |-> r.exc, result |-> <<>>]
    /\ UNCHANGED <<fCalls, rvars, vvars>>

\* make_robust_transformer(transformer) called on its own: the object's fit
\* and transform are replaced, the object is returned, no Feature is built
MakeRobustTransformer ==
    /\ fOps + fCalls < MaxCalls
    /\ fCalls' = fCalls + 1
    /\ \E id \in 1..Len(fHeap) :
          LET r == make_robust_transformer(fHeap, id) IN
          /\ fHeap' = r.heap
          /\ fLast' = [op |-> "make_robust_transformer",
                       input |-> Value("NoneType", <<>>),
                       arg |-> [kind |-> "object", id |-> id, steps |-> <<>>],
                       exc |-> r.exc,
                       result |-> IF r.exc = "none" THEN <<id>> ELSE <<>>]
    /\ UNCHANGED <<fFeatures, fOps, rvars, vvars>>

\* make_robust_transformer_pipeline(*steps) called on its own: a new
\* pipeline whose fit and transform are the class's own, or the exception of
\* the pipeline constructor
MakeRobustTransformerPipeline ==
    /\ fOps + fCalls < MaxCalls
    /\ fCalls' = fCalls + 1
    /\ \E steps \in StepLists(fHeap) :
          LET perr == PipelineError(fHeap, steps) IN
          /\ fHeap' = IF perr = "none"
                      THEN Append(fHeap,
                              make_robust_transformer_pipeline(fHeap, steps))
                      ELSE fHeap
          /\ fLast' = [op |-> "make_robust_transformer_pipeline",
                       input |-> Value("NoneType", <<>>),
                       arg |-> [kind |-> "tuple", id |-> 0, steps |-> steps],
                       exc |-> perr,
                       result |-> IF perr = "none" THEN <<Len(fHeap) + 1>>
                                  ELSE <<>>]
    /\ UNCHANGED <<fFeatures, fOps, rvars, vvars>>

\* Feature.as_sklearn_pandas_tuple()
AsTuple ==
    /\ \E k \in 1..Len(fFeatures) :
          fLast' = [op |-> "as_tuple", input |-> Value("NoneType", <<>>),
                    arg |-> [kind |-> "feature", id |-> k, steps |-> <<>>],
                    exc |-> "none",
                    result |-> <<fFeatures[k].input, fFeatures[k].transformer>>]
    /\ UNCHANGED <<fHeap, fFeatures, fOps, fCalls, rvars, vvars>>

FeatureIdle ==
    /\ fHeap = InitialHeap
    /\ fFeatures = <<>>
    /\ fOps = 0
    /\ fCalls = 0
    /\ fLast = NoOp

(***************************************************************************)
(* The wrapper as a function of what each approach meets: b[i] is "none"   *)
(* when the try body of approach i completes and the exception class it    *)
(* raises otherwise.  The result is the exception leaving wrapped, "none"  *)
(* for a return, "fallthrough" for the loop running out.                   *)
(***************************************************************************)
RECURSIVE RunApproaches(_, _)
RunApproaches(b, i) ==
    IF i > Len(make_conversion_approaches) THEN "fallthrough"
    ELSE IF b[i] = "none" THEN "none"
    ELSE IF Catches(make_conversion_approaches[i].catch, b[i])
         THEN RunApproaches(b, i + 1)
    ELSE b[i]

wrapped(b) == RunApproaches(b, 1)

(***************************************************************************)
(* FeatureValidator                                                        *)
(***************************************************************************)
\* values a caller may have stored in feature.input
InputValues ==
    { ColName, ColList,
      Value("str", <<>>),
      Value("list", <<>>),
      Value("list", <<"str", "int">>),
      Value("tuple", <<"str">>),
      Value("bytes", <<"int", "int">>),
      Value("int", <<>>),
      Value("NoneType", <<>>) }

\* funcy.isa(str)
is_str(x) == x.type = "str"

\* funcy.iterable(x): iter(x) does not raise TypeError
iterable(x) == x.type \in {"str", "list", "tuple", "bytes"}

\* all(map(is_str, x)): "True", "False", or the TypeError of mapping over a
\* value that cannot be iterated
AllStr(x) ==
    IF ~ iterable(x) THEN "TypeError"
    ELSE IF \A i \in 1..Len(x.items) : x.items[i] = "str" THEN "True"
    ELSE "False"

\* variant: both predicates applied before all() looks at either result
is_nested_str_eager(x) ==
    IF AllStr(x) \notin {"True", "False"} THEN AllStr(x)
    ELSE IF iterable(x) /\ AllStr(x) = "True" THEN "True" ELSE "False"

\* funcy.all_fn(funcy.iterable, lambda x: all(map(is_str, x))): the
\* predicates are applied lazily, so the second is not applied to a value the
\* first rejects
is_nested_str(x) == IF ~ iterable(x) THEN "False" ELSE AllStr(x)

\* the decorator `check`: True when the body returns, False on an
\* AssertionError, any other exception propagates
check(body) ==
    IF body = "ok" THEN [result |-> "True", exc |-> "none"]
    ELSE IF Catches({"AssertionError"}, body)
         THEN [result |-> "False", exc |-> "none"]
    ELSE [result |-> "raise", exc |-> body]

\* try: ... except Exception: raise AssertionError
tryExceptException(e) ==
    IF e = "none" THEN "ok"
    ELSE IF Catches({"Exception"}, e) THEN "AssertionError"
    ELSE e

\* body of input_types
input_types_body(feature) ==
    IF is_str(feature.input) THEN "ok"
    ELSE LET r == is_nested_str(feature.input) IN
         IF r = "True" THEN "ok"
         ELSE IF r = "False" THEN "AssertionError"
         ELSE r

\* body of transformer_interface
transformer_interface_body(feature) ==
    IF "fit" \notin feature.has THEN "AssertionError"
    ELSE IF "transform" \notin feature.has THEN "AssertionError"
    ELSE "ok"

\* exception classes the modelled transformers and copy hooks raise
RaisedByUser == {"ValueError", "RuntimeError", "AssertionError"}

\* what the five approaches meet in one call of a type-robust fit/transform
Behaviours ==
    { <<"none", "none", "none", "none", "none">>,
      <<"TypeError", "none", "none", "none", "none">>,
      <<"ValueError", "TypeError", "ValueError", "TypeError", "none">>,
      <<"ValueError", "TypeError", "ValueError", "TypeError", "ValueError">>,
      <<"RuntimeError", "none", "none", "none", "none">>,
      <<"ValueError", "AssertionError", "none", "none", "none">> }

\* feature.transformer.<name>(...) for fit and transform, which Feature made
\* type-robust: AttributeError when the attribute is missing
CallRobust(feature, name, b) ==
    IF name \notin feature.has THEN "AttributeError" ELSE wrapped(b)

\* what feature.transformer.fit_transform(X, y) does: raises, or returns an
\* array with as many rows as X, with another number of rows, or a value
\* without .shape (None, a list)
FitTransformResults ==
    {[exc |-> e, out |-> "none"] : e \in RaisedByUser}
    \cup {[exc |-> "none", out |-> o] :
            o \in {"same_rows", "other_rows", "no_shape"}}

CallFitTransform(feature, r) ==
    IF "fit_transform" \notin feature.has
    THEN [exc |-> "AttributeError", out |-> "none"]
    ELSE r

\* assert self.X.shape[0] == X.shape[0]
AssertSameRows(out) ==
    IF out = "no_shape" THEN "AttributeError"
    ELSE IF out = "same_rows" THEN "ok"
    ELSE "AssertionError"

\* self.__dir__(): instance attributes, then the class body in definition
\* order (the attributes inherited from object carry no is_check)
DirNames ==
    << "X", "y", "__init__", "input_types", "transformer_interface", "fit",
       "transform", "fit_transform", "transform_output_dimensions",
       "can_copy", "can_deepcopy", "get_all_checks", "validate" >>

\* the methods the decorator marked with is_check
is_check(name) ==
    name \in {"input_types", "transformer_interface", "fit", "transform",
              "fit_transform", "transform_output_dimensions", "can_copy",
              "can_deepcopy"}

get_all_checks == SelectSeq(DirNames, is_check)

NoFeature == [input |-> Value("NoneType", <<>>), has |-> {}]

NoResult == [kind |-> "none", value |-> FALSE, exc |-> "none"]

Methods == {"fit", "transform", "fit_transform"}

FeaturesToValidate ==
    {[input |-> i, has |-> h] :
        i \in InputValues,
        h \in {Methods, Methods \ {"fit"}, Methods \ {"transform"},
               Methods \ {"fit_transform"}}}

\* validate(feature), up to the loop
FV_validate ==
    /\ vPc = "idle"
    /\ \E f \in FeaturesToValidate : vFeature' = f
    /\ vPc' = "checks"
    /\ vIdx' = 1
    /\ vLog' = <<>>
    /\ vFailed' = FALSE
    /\ vFailures' = <<>>
    /\ vResult' = NoResult
    /\ UNCHANGED <<rvars, fvars>>

AtCheck(name) ==
    /\ vPc = "checks"
    /\ vIdx <= Len(get_all_checks)
    /\ get_all_checks[vIdx] = name

\* success = check(feature) and the rest of the loop body; `body` is how
\* the check's body ended and `seen` the exception, if any, that came out
\* of the transformer or of copying during it
LoopBody(name, body, seen) ==
    LET r == check(body) IN
    /\ vLog' = Append(vLog, [name |-> name, result |-> r.result,
                             exc |-> r.exc, seen |-> seen])
    /\ IF r.result = "raise"
       THEN /\ vPc' = "done"
            /\ vResult' = [kind |-> "raise", value |-> FALSE, exc |-> r.exc]
            /\ UNCHANGED <<vIdx, vFailed, vFailures>>
       ELSE /\ vIdx' = vIdx + 1
            /\ vFailed' = (vFailed \/ r.result = "False")
            /\ vFailures' = IF r.result = "False"
                            THEN Append(vFailures, name) ELSE vFailures
            /\ UNCHANGED <<vPc, vResult>>
    /\ UNCHANGED <<vFeature, rvars, fvars>>

FV_input_types ==
    /\ AtCheck("input_types")
    /\ LoopBody("input_types", input_types_body(vFeature), "none")

FV_transformer_interface ==
    /\ AtCheck("transformer_interface")
    /\ LoopBody("transformer_interface",
                transformer_interface_body(vFeature), "none")

FV_fit ==
    /\ AtCheck("fit")
    /\ \E b \in Behaviours :
          LET e == CallRobust(vFeature, "fit", b) IN
          LoopBody("fit", tryExceptException(e), e)

FV_transform ==
    /\ AtCheck("transform")
    /\ \E b1 \in Behaviours, b2 \in Behaviours :
          LET e1 == CallRobust(vFeature, "fit", b1)
              e  == IF e1 # "none" THEN e1
                    ELSE CallRobust(vFeature, "transform", b2)
          IN  LoopBody("transform", tryExceptException(e), e)

FV_fit_transform ==
    /\ AtCheck("fit_transform")
    /\ \E r \in FitTransformResults :
          LET c == CallFitTransform(vFeature, r) IN
          LoopBody("fit_transform", tryExceptException(c.exc), c.exc)

FV_transform_output_dimensions ==
    /\ AtCheck("transform_output_dimensions")
    /\ \E r \in FitTransformResults :
          LET c    == CallFitTransform(vFeature, r)
              body == IF c.exc # "none" THEN tryExceptException(c.exc)
                      ELSE AssertSameRows(c.out)
          IN  LoopBody("transform_output_dimensions", body, c.exc)

FV_can_copy ==
    /\ AtCheck("can_copy")
    /\ \E e \in {"none"} \cup RaisedByUser :
          LoopBody("can_copy", tryExceptException(e), e)

FV_can_deepcopy ==
    /\ AtCheck("can_deepcopy")
    /\ \E e \in {"none"} \cup RaisedByUser :
          LoopBody("can_deepcopy", tryExceptException(e), e)

\* validate(feature), after the loop
FV_return ==
    /\ vPc = "checks"
    /\ vIdx > Len(get_all_checks)
    /\ vPc' = "done"
    /\ vResult' = [kind |-> "return", value |-> ~ vFailed, exc |-> "none"]
    /\ UNCHANGED <<vFeature, vIdx, vLog, vFailed, vFailures, rvars, fvars>>

ValidateIdle ==
    /\ vPc = "idle"
    /\ vFeature = NoFeature
    /\ vIdx = 0
    /\ vLog = <<>>
    /\ vFailed = FALSE
    /\ vFailures = <<>>
    /\ vResult = NoResult

RobustInit == RobustIdle /\ FeatureIdle /\ ValidateIdle

RobustNext == Call \/ Attempt

SpecRobust == RobustInit /\ [][RobustNext]_vars

FeatureInit == RobustIdle /\ FeatureIdle /\ ValidateIdle

FeatureNext ==
    \/ FeatureNew
    \/ MakeRobustTransformer
    \/ MakeRobustTransformerPipeline
    \/ AsTuple

SpecFeature == FeatureInit /\ [][FeatureNext]_vars

ValidateInit == RobustIdle /\ FeatureIdle /\ ValidateIdle

ValidateNext ==
    \/ FV_validate
    \/ FV_input_types
    \/ FV_transformer_interface
    \/ FV_fit
    \/ FV_transform
    \/ FV_fit_transform
    \/ FV_transform_output_dimensions
    \/ FV_can_copy
    \/ FV_can_deepcopy
    \/ FV_return

SpecValidate == ValidateInit /\ [][ValidateNext]_vars

(***************************************************************************)
(* Properties of the wrapper                                               *)
(***************************************************************************)
TypeErrors == {"ValueError", "TypeError"}

ApproachOrder == <<"identity", "Series", "DataFrame", "asarray", "asarray2d">>

CallsMade == Cardinality({i \in 1..Len(rTrace) : rTrace[i].called})

\* C1: a wrapped call tries identity, pd.Series, pd.DataFrame, np.asarray,
\* asarray2d in that order, calls the wrapped function at most once per
\* approach (so at most five times), moves on to the next approach only after
\* a ValueError or TypeError in one of the first four, and returns the result
\* of the first approach that does not raise without trying a later one.
C1_RetryInOrder ==
    /\ Len(rTrace) = rIdx
    /\ Len(rTrace) <= 5
    /\ CallsMade <= 5
    /\ \A i \in 1..Len(rTrace) : rTrace[i].convert = ApproachOrder[i]
    /\ \A i \in 1..Len(rTrace) :
          i < Len(rTrace) =>
             /\ i <= 4
             /\ rTrace[i].exc # "none"
             /\ Catches(TypeErrors, rTrace[i].exc)
    /\ rPc = "loop" =>
          \A i \in 1..Len(rTrace) :
             rTrace[i].exc # "none" /\ Catches(TypeErrors, rTrace[i].exc)
    /\ (rPc = "done" /\ Len(rTrace) < 5) =>
          ~ (rTrace[Len(rTrace)].exc # "none"
             /\ Catches(TypeErrors, rTrace[Len(rTrace)].exc))
    /\ \A i \in 1..Len(rTrace) :
          rTrace[i].exc = "none" =>
             /\ i = Len(rTrace)
             /\ rTrace[i].called
             /\ rPc = "done"
             /\ rOutcome = [kind |-> "return", convert |-> ApproachOrder[i],
                            exc |-> "none"]
    /\ rOutcome.kind = "return" => rTrace[Len(rTrace)].exc = "none"

C1_Witness ==
    /\ rPc = "done"
    /\ Len(rTrace) = 3
    /\ rTrace[1].called /\ rTrace[1].exc = "TypeError"
    /\ ~ rTrace[2].called /\ rTrace[2].exc = "ValueError"
    /\ rOutcome.kind = "return" /\ rOutcome.convert = "DataFrame"

\* C7: an exception that is neither a ValueError nor a TypeError, raised by a
\* conversion or by the wrapped function under any approach, ends the call at
\* once: it is the exception the caller sees and no later approach is tried.
C7_OtherErrorsPropagate ==
    \A i \in 1..Len(rTrace) :
       (rTrace[i].exc # "none" /\ ~ Catches(TypeErrors, rTrace[i].exc)) =>
          /\ i = Len(rTrace)
          /\ rPc = "done"
          /\ rOutcome = [kind |-> "raise", convert |-> ApproachOrder[i],
                         exc |-> rTrace[i].exc]

C7_Witness ==
    /\ rPc = "done"
    /\ Len(rTrace) = 2
    /\ rTrace[1].exc = "ValueError"
    /\ rTrace[2].stage = "convertX" /\ rTrace[2].exc = "KeyError"
    /\ rOutcome = [kind |-> "raise", convert |-> "Series", exc |-> "KeyError"]

FirstFourFailed ==
    /\ Len(rTrace) >= 4
    /\ \A i \in 1..4 :
          rTrace[i].exc # "none" /\ Catches(TypeErrors, rTrace[i].exc)

\* C9: the wrapper never ends by running out of approaches (the implicit
\* `return None`): after four ValueError/TypeError failures the fifth approach
\* is attempted and the call ends with that attempt's result or with that
\* attempt's exception, whatever its class.
C9_NeverFallsThrough ==
    /\ rOutcome.kind # "fallthrough"
    /\ rPc = "done" => rOutcome.kind \in {"return", "raise"}
    /\ FirstFourFailed =>
          \/ rPc = "loop" /\ Len(rTrace) = 4
          \/ /\ rPc = "done"
             /\ Len(rTrace) = 5
             /\ rTrace[5].convert = "asarray2d"
             /\ IF rTrace[5].exc = "none"
                THEN rOutcome = [kind |-> "return", convert |-> "asarray2d",
                                 exc |-> "none"]
                ELSE rOutcome = [kind |-> "raise", convert |-> "asarray2d",
                                 exc |-> rTrace[5].exc]

C9_Witness ==
    /\ rPc = "done"
    /\ FirstFourFailed
    /\ Len(rTrace) = 5
    /\ rTrace[5].called /\ rTrace[5].exc = "ValueError"
    /\ rOutcome = [kind |-> "raise", convert |-> "asarray2d",
                   exc |-> "ValueError"]

(***************************************************************************)
(* Properties of Feature construction                                      *)
(***************************************************************************)
Wrapped(before, after) ==
    /\ before # Absent
    /\ after.name = before.name
    /\ after.owner = before.owner
    /\ after.layers = before.layers + 1

StepsGiven == {"list", "tuple", "iterator", "range"}

ConstructedStep ==
    /\ fLast'.op = "new"
    /\ fOps' = fOps + 1
    /\ Len(fFeatures') = Len(fFeatures) + 1

\* C6: Feature(input, transformer) stores a RobustTransformerPipeline built
\* from the steps in the given order when transformer is a sequence of steps,
\* and the very object passed in otherwise; in both cases that object's fit
\* and transform become type-robust wrappers of what they were, its other
\* attributes and every other object stay as they are, and
\* as_sklearn_pandas_tuple() returns (feature.input, feature.transformer).
C6_FeatureConstruction ==
    /\ [][ConstructedStep =>
            LET f   == fFeatures'[Len(fFeatures')]
                arg == fLast'.arg
                t   == f.transformer
            IN  /\ f.input = fLast'.input
                /\ SubSeq(fFeatures', 1, Len(fFeatures)) = fFeatures
                /\ IF arg.kind \in StepsGiven
                   THEN /\ t = Len(fHeap) + 1
                        /\ Len(fHeap') = Len(fHeap) + 1
                        /\ \A i \in 1..Len(fHeap) : fHeap'[i] = fHeap[i]
                        /\ fHeap'[t].cls = "RobustTransformerPipeline"
                        /\ Len(fHeap'[t].steps) = Len(arg.steps)
                        /\ \A i \in 1..Len(arg.steps) :
                              fHeap'[t].steps[i].est = arg.steps[i]
                        /\ Wrapped(Method("fit", t), fHeap'[t].fit)
                        /\ Wrapped(Method("transform", t), fHeap'[t].transform)
                        /\ fHeap'[t].fit_transform = Method("fit_transform", t)
                   ELSE /\ t = arg.id
                        /\ Len(fHeap') = Len(fHeap)
                        /\ \A i \in 1..Len(fHeap) :
                              i # t => fHeap'[i] = fHeap[i]
                        /\ Wrapped(fHeap[t].fit, fHeap'[t].fit)
                        /\ Wrapped(fHeap[t].transform, fHeap'[t].transform)
                        /\ fHeap'[t].cls = fHeap[t].cls
                        /\ fHeap'[t].steps = fHeap[t].steps
                        /\ fHeap'[t].fit_transform = fHeap[t].fit_transform
                        /\ fHeap'[t].param = fHeap[t].param
          ]_vars
    /\ [](fLast.op = "as_tuple" =>
             /\ fLast.arg.id \in 1..Len(fFeatures)
             /\ fLast.result = << fFeatures[fLast.arg.id].input,
                                  fFeatures[fLast.arg.id].transformer >>)

C6_Witness ==
    /\ Len(fFeatures) = 2
    /\ fFeatures[1] = [input |-> ColList, transformer |-> 4]
    /\ fHeap[4].cls = "RobustTransformerPipeline"
    /\ fHeap[4].steps = << [name |-> <<"Imputer", 1>>, est |-> 2],
                           [name |-> <<"Imputer", 2>>, est |-> 1] >>
    /\ fFeatures[2] = [input |-> ColName, transformer |-> 1]
    /\ fHeap[1].fit.layers = 1 /\ fHeap[1].transform.layers = 1
    /\ fHeap[1].fit_transform.layers = 0 /\ fHeap[1].param = 7
    /\ fLast.op = "as_tuple" /\ fLast.result = <<ColList, 4>>

(***************************************************************************)
(* Properties of the validator                                             *)
(***************************************************************************)
CheckNames ==
    {"input_types", "transformer_interface", "fit", "transform",
     "fit_transform", "transform_output_dimensions", "can_copy",
     "can_deepcopy"}

ReturnedTrue == [kind |-> "return", value |-> TRUE, exc |-> "none"]

ReturnedFalse == [kind |-> "return", value |-> FALSE, exc |-> "none"]

StrOrIterableOfStr(x) ==
    \/ x.type = "str"
    \/ /\ x.type \in {"list", "tuple", "bytes"}
       /\ \A i \in 1..Len(x.items) : x.items[i] = "str"

\* C5: input_types(feature) returns True exactly when feature.input is a
\* string or an iterable all of whose elements are strings, and returns False
\* without raising for every other input.
C5_InputTypes ==
    \A i \in 1..Len(vLog) :
       vLog[i].name = "input_types" =>
          /\ vLog[i].result = (IF StrOrIterableOfStr(vFeature.input)
                               THEN "True" ELSE "False")
          /\ vLog[i].exc = "none"

C5_Witness ==
    /\ Len(vLog) >= 1
    /\ vLog[1].name = "input_types"
    /\ vFeature.input = Value("int", <<>>)
    /\ vLog[1].result = "False"

\* C2: validate(feature) returns True if and only if each of the eight
\* checks returns True, and returns False if at least one check returns
\* False.
C2_ValidateIffAllChecks ==
    vPc = "done" =>
       /\ (vResult = ReturnedTrue) <=>
             /\ \A n \in CheckNames :
                   \E i \in 1..Len(vLog) : vLog[i].name = n
             /\ \A i \in 1..Len(vLog) : vLog[i].result = "True"
       /\ (\E i \in 1..Len(vLog) : vLog[i].result = "False")
             => vResult = ReturnedFalse

\* C8: an Exception raised by the transformer's fit, transform or
\* fit_transform, or by copying the feature, during a check makes that check
\* return False and validate return False, and does not propagate.
C8_ErrorsMakeValidateFalse ==
    \A i \in 1..Len(vLog) :
       (vLog[i].seen # "none" /\ Catches({"Exception"}, vLog[i].seen)) =>
          /\ vLog[i].result = "False"
          /\ vLog[i].exc = "none"
          /\ vPc = "done" => vResult = ReturnedFalse

\* C10: validate invokes every check get_all_checks yields exactly once,
\* the eight methods marked is_check and nothing else, also after a check
\* has returned False.
C10_EveryCheckInvokedOnce ==
    vPc = "done" =>
       /\ \A n \in CheckNames :
             Cardinality({i \in 1..Len(vLog) : vLog[i].name = n}) = 1
       /\ \A i \in 1..Len(vLog) : vLog[i].name \in CheckNames

=============================================================================
